---------------------------- MODULE Spec2Model ----------------------------
(***************************************************************************)
(* A model of simple-cors-proxy.py: the SecureCORSProxy request handler.   *)
(*                                                                         *)
(* Python strings are modelled as sequences of one-character strings, so   *)
(* that startswith, split, strip, lower, the URL regular expression,       *)
(* urlparse and the ipaddress parsers are computed character by character  *)
(* the way the code (and the library calls it makes) computes them.        *)
(***************************************************************************)
EXTENDS Integers, Sequences, FiniteSets, TLC

-----------------------------------------------------------------------------
(* Characters and the str methods the handler uses.                        *)

LowerLetters == <<"a","b","c","d","e","f","g","h","i","j","k","l","m",
                  "n","o","p","q","r","s","t","u","v","w","x","y","z">>
UpperLetters == <<"A","B","C","D","E","F","G","H","I","J","K","L","M",
                  "N","O","P","Q","R","S","T","U","V","W","X","Y","Z">>
DigitChars == <<"0","1","2","3","4","5","6","7","8","9">>
HexChars == <<"0","1","2","3","4","5","6","7","8","9","a","b","c","d","e","f">>

Range(s) == {s[i] : i \in 1..Len(s)}
IndexOf(s, c) == CHOOSE i \in 1..Len(s) : s[i] = c /\ \A j \in 1..(i-1) : s[j] # c
LastIndexOf(s, c) == CHOOSE i \in 1..Len(s) : s[i] = c /\ \A j \in (i+1)..Len(s) : s[j] # c
Contains(s, c) == \E i \in 1..Len(s) : s[i] = c
From(s, i) == SubSeq(s, i, Len(s))

IsLower(c) == c \in Range(LowerLetters)
IsUpper(c) == c \in Range(UpperLetters)
IsDigit(c) == c \in Range(DigitChars)
IsAlnum(c) == IsLower(c) \/ IsUpper(c) \/ IsDigit(c)
IsSpace(c) == c \in {" ", "\t"}

(* str.lower() *)
lower_char(c) == IF IsUpper(c) THEN LowerLetters[IndexOf(UpperLetters, c)] ELSE c
lower(s) == [i \in 1..Len(s) |-> lower_char(s[i])]

(* str.startswith / str.endswith *)
startswith(s, p) == Len(s) >= Len(p) /\ SubSeq(s, 1, Len(p)) = p
endswith(s, p) == Len(s) >= Len(p) /\ SubSeq(s, Len(s) - Len(p) + 1, Len(s)) = p

(* str.strip() *)
strip(s) ==
    IF \A i \in 1..Len(s) : IsSpace(s[i]) THEN <<>>
    ELSE LET a == CHOOSE i \in 1..Len(s) : ~IsSpace(s[i]) /\ \A j \in 1..(i-1) : IsSpace(s[j])
             b == CHOOSE i \in 1..Len(s) : ~IsSpace(s[i]) /\ \A j \in (i+1)..Len(s) : IsSpace(s[j])
         IN SubSeq(s, a, b)

(* str.split(c) for a one-character separator *)
RECURSIVE split(_, _)
split(s, c) ==
    IF Contains(s, c)
    THEN LET i == IndexOf(s, c) IN <<SubSeq(s, 1, i - 1)>> \o split(From(s, i + 1), c)
    ELSE <<s>>

(* str.partition(c) and str.rpartition(c), as <<head, sep, tail>> *)
partition(s, c) ==
    IF Contains(s, c)
    THEN LET i == IndexOf(s, c) IN <<SubSeq(s, 1, i - 1), <<c>>, From(s, i + 1)>>
    ELSE <<s, <<>>, <<>>>>
rpartition(s, c) ==
    IF Contains(s, c)
    THEN LET i == LastIndexOf(s, c) IN <<SubSeq(s, 1, i - 1), <<c>>, From(s, i + 1)>>
    ELSE <<<<>>, <<>>, s>>

(* int(s) for a string of ASCII digits, int(s, 16) for hex digits *)
RECURSIVE DecValue(_)
DecValue(s) ==
    IF s = <<>> THEN 0
    ELSE 10 * DecValue(SubSeq(s, 1, Len(s) - 1)) + (IndexOf(DigitChars, s[Len(s)]) - 1)
RECURSIVE HexValue(_)
HexValue(s) ==
    IF s = <<>> THEN 0
    ELSE 16 * HexValue(SubSeq(s, 1, Len(s) - 1)) + (IndexOf(HexChars, lower_char(s[Len(s)])) - 1)
AllDigits(s) == \A i \in 1..Len(s) : IsDigit(s[i])
AllHex(s) == \A i \in 1..Len(s) : lower_char(s[i]) \in Range(HexChars)

(* Python's None, a value no character sequence equals *)
None == <<"None">>


-----------------------------------------------------------------------------
(* The ipaddress library calls of _is_allowed_ip and ip_in_cidr.  An       *)
(* address is [version, bits], bits most significant first; NoAddress      *)
(* stands for the ValueError the constructors raise.                       *)

RECURSIVE Flatten(_)
Flatten(ss) == IF ss = <<>> THEN <<>> ELSE Head(ss) \o Flatten(Tail(ss))
BitsOf(n, w) == [i \in 1..w |-> (n \div (2^(w - i))) % 2]
RECURSIVE BitsValue(_)
BitsValue(b) == IF b = <<>> THEN 0 ELSE 2 * BitsValue(SubSeq(b, 1, Len(b) - 1)) + b[Len(b)]
Zeros(n) == [i \in 1..n |-> 0]
Ones(n) == [i \in 1..n |-> 1]
NoAddress == [version |-> 0, bits |-> <<>>]

RECURSIVE StripZeros(_)
StripZeros(s) == IF Len(s) > 1 /\ s[1] = "0" THEN StripZeros(Tail(s)) ELSE s
RECURSIVE HexString(_)
HexString(n) ==
    IF n < 16 THEN <<HexChars[n + 1]>>
    ELSE HexString(n \div 16) \o <<HexChars[(n % 16) + 1]>>

(* IPv4Address._parse_octet: digits only, at most 3, no leading zero, <= 255 *)
OctetOk(o) ==
    /\ Len(o) \in 1..3
    /\ AllDigits(o)
    /\ ~(o # <<"0">> /\ o[1] = "0")
    /\ DecValue(o) <= 255
IPv4Address(s) ==
    IF Contains(s, "/") THEN NoAddress
    ELSE LET octets == split(s, ".") IN
         IF Len(octets) # 4 \/ \E i \in 1..Len(octets) : ~OctetOk(octets[i])
         THEN NoAddress
         ELSE [version |-> 4,
               bits |-> Flatten([i \in 1..4 |-> BitsOf(DecValue(octets[i]), 8)])]

(* IPv6Address._parse_hextet *)
HextetOk(h) == Len(h) \in 1..4 /\ AllHex(h)
(* IPv6Address._ip_int_from_string *)
IPv6Parts(parts) ==
    LET n == Len(parts)
        skips == {i \in 2..(n - 1) : parts[i] = <<>>}
    IN  IF n > 9 \/ Cardinality(skips) > 1 THEN NoAddress
        ELSE IF skips # {}
        THEN LET k == CHOOSE i \in skips : TRUE
                 hi == IF parts[1] = <<>> THEN k - 2 ELSE k - 1
                 lo == IF parts[n] = <<>> THEN n - k - 1 ELSE n - k
                 skipped == 8 - (hi + lo)
             IN IF \/ (parts[1] = <<>> /\ hi # 0)
                   \/ (parts[n] = <<>> /\ lo # 0)
                   \/ skipped < 1
                   \/ \E i \in (1..hi) \cup ((n - lo + 1)..n) : ~HextetOk(parts[i])
                THEN NoAddress
                ELSE [version |-> 6,
                      bits |-> Flatten([i \in 1..hi |-> BitsOf(HexValue(parts[i]), 16)])
                               \o Zeros(16 * skipped)
                               \o Flatten([i \in 1..lo |->
                                              BitsOf(HexValue(parts[n - lo + i]), 16)])]
        ELSE IF n # 8 \/ \E i \in 1..n : ~HextetOk(parts[i]) THEN NoAddress
        ELSE [version |-> 6,
              bits |-> Flatten([i \in 1..8 |-> BitsOf(HexValue(parts[i]), 16)])]
IPv6Address(s) ==
    IF Contains(s, "/") THEN NoAddress
    ELSE LET sp == partition(s, "%")
             scopeOk == sp[2] = <<>> \/ (sp[3] # <<>> /\ ~Contains(sp[3], "%"))
             parts == split(sp[1], ":")
             n == Len(parts)
         IN IF ~scopeOk \/ n < 3 THEN NoAddress
            ELSE IF Contains(parts[n], ".")
            THEN LET v4 == IPv4Address(parts[n]) IN
                 IF v4.version # 4 THEN NoAddress
                 ELSE IPv6Parts(SubSeq(parts, 1, n - 1)
                                \o <<HexString(BitsValue(SubSeq(v4.bits, 1, 16))),
                                      HexString(BitsValue(SubSeq(v4.bits, 17, 32)))>>)
            ELSE IPv6Parts(parts)

(* ipaddress.ip_address(s): IPv4 first, then IPv6, else ValueError *)
ip_address(s) ==
    IF IPv4Address(s).version = 4 THEN IPv4Address(s) ELSE IPv6Address(s)

(* _prefix_from_prefix_string; -1 stands for NetmaskValueError *)
PrefixFromString(s, max) ==
    IF s = <<>> \/ ~AllDigits(s) \/ Len(StripZeros(s)) > 3 THEN -1
    ELSE IF DecValue(StripZeros(s)) <= max THEN DecValue(StripZeros(s)) ELSE -1
(* _prefix_from_ip_string: a dotted netmask, else a dotted hostmask (IPv4 only) *)
PrefixFromIPString(s) ==
    LET a == IPv4Address(s) IN
    IF a.version # 4 THEN -1
    ELSE IF \E p \in 0..32 : a.bits = Ones(p) \o Zeros(32 - p)
    THEN CHOOSE p \in 0..32 : a.bits = Ones(p) \o Zeros(32 - p)
    ELSE IF \E p \in 0..32 : a.bits = Zeros(p) \o Ones(32 - p)
    THEN CHOOSE p \in 0..32 : a.bits = Zeros(p) \o Ones(32 - p)
    ELSE -1
NoNetwork == [version |-> 0, bits |-> <<>>, prefixlen |-> 0]
IPv4Network(s) ==
    LET args == split(s, "/")
        a == IPv4Address(args[1])
        p == IF Len(args) = 1 THEN 32
             ELSE IF PrefixFromString(args[2], 32) >= 0 THEN PrefixFromString(args[2], 32)
             ELSE PrefixFromIPString(args[2])
    IN IF Len(args) > 2 \/ a.version # 4 \/ p < 0 THEN NoNetwork
       ELSE [version |-> 4, bits |-> a.bits, prefixlen |-> p]
IPv6Network(s) ==
    LET args == split(s, "/")
        a == IPv6Address(args[1])
        p == IF Len(args) = 1 THEN 128 ELSE PrefixFromString(args[2], 128)
    IN IF Len(args) > 2 \/ a.version # 6 \/ p < 0 THEN NoNetwork
       ELSE [version |-> 6, bits |-> a.bits, prefixlen |-> p]
(* ipaddress.ip_network(s, strict=False): host bits are masked, not refused *)
ip_network(s) ==
    IF IPv4Network(s).version = 4 THEN IPv4Network(s) ELSE IPv6Network(s)
(* `ip in net`: same version and equal on the first prefixlen bits *)
InNetwork(ip, net) ==
    /\ ip.version # 0
    /\ ip.version = net.version
    /\ SubSeq(ip.bits, 1, net.prefixlen) = SubSeq(net.bits, 1, net.prefixlen)

-----------------------------------------------------------------------------
(* urllib.parse.urlparse, as far as the handler reads it: scheme and       *)
(* hostname.                                                               *)

SchemeChar(c) == IsAlnum(c) \/ c \in {"+", "-", "."}
(* urlsplit: the scheme is what precedes the first ':' when it is made of   *)
(* scheme characters and starts with a letter                              *)
HasScheme(url) ==
    /\ Contains(url, ":")
    /\ IndexOf(url, ":") > 1
    /\ (IsLower(url[1]) \/ IsUpper(url[1]))
    /\ \A i \in 1..(IndexOf(url, ":") - 1) : SchemeChar(url[i])
UrlScheme(url) == IF HasScheme(url) THEN lower(SubSeq(url, 1, IndexOf(url, ":") - 1)) ELSE <<>>
UrlRest(url) == IF HasScheme(url) THEN From(url, IndexOf(url, ":") + 1) ELSE url
(* _splitnetloc: after '//', up to the first of '/', '?', '#' *)
UrlNetloc(url) ==
    LET rest == UrlRest(url) IN
    IF ~startswith(rest, <<"/", "/">>) THEN <<>>
    ELSE LET body == From(rest, 3)
             stops == {i \in 1..Len(body) : body[i] \in {"/", "?", "#"}}
         IN IF stops = {} THEN body
            ELSE SubSeq(body, 1, (CHOOSE i \in stops : \A j \in stops : i <= j) - 1)
(* urlsplit raises ValueError("Invalid IPv6 URL") on an unmatched bracket *)
UrlParseError(url) ==
    LET n == UrlNetloc(url) IN Contains(n, "[") # Contains(n, "]")
(* SplitResult.hostname: drop userinfo, take the bracketed part or what     *)
(* precedes ':', lower-case what precedes a '%'; None when empty           *)
UrlHostname(url) ==
    LET hostinfo == rpartition(UrlNetloc(url), "@")[3]
        br == partition(hostinfo, "[")
        hostname == IF br[2] # <<>> THEN partition(br[3], "]")[1]
                    ELSE partition(hostinfo, ":")[1]
        z == partition(hostname, "%")
    IN IF hostname = <<>> THEN None ELSE lower(z[1]) \o z[2] \o z[3]

-----------------------------------------------------------------------------
(* The pure helpers of SecureCORSProxy.                                    *)

(* 'application/json', 'application/scim+json', 'text/plain',               *)
(* 'application/xml', 'text/xml'                                            *)
ALLOWED_CONTENT_TYPES ==
    { <<"a","p","p","l","i","c","a","t","i","o","n","/","j","s","o","n">>,
      <<"a","p","p","l","i","c","a","t","i","o","n","/","s","c","i","m","+","j","s","o","n">>,
      <<"t","e","x","t","/","p","l","a","i","n">>,
      <<"a","p","p","l","i","c","a","t","i","o","n","/","x","m","l">>,
      <<"t","e","x","t","/","x","m","l">> }

(* '127.0.0.0/8', '10.0.0.0/8', '172.16.0.0/12', '192.168.0.0/16',          *)
(* '::1/128', 'fc00::/7', 'fe80::/10'                                       *)
ALLOWED_IP_RANGES ==
    << <<"1","2","7",".","0",".","0",".","0","/","8">>,
       <<"1","0",".","0",".","0",".","0","/","8">>,
       <<"1","7","2",".","1","6",".","0",".","0","/","1","2">>,
       <<"1","9","2",".","1","6","8",".","0",".","0","/","1","6">>,
       <<":",":","1","/","1","2","8">>,
       <<"f","c","0","0",":",":","/","7">>,
       <<"f","e","8","0",":",":","/","1","0">> >>

(* _is_allowed_ip: ValueError from ip_address gives False *)
_is_allowed_ip_any_parsed(ip_str) == ip_address(ip_str).version # 0
_is_allowed_ip(ip_str) ==
    LET ip == ip_address(ip_str) IN
    /\ ip.version # 0
    /\ \E i \in 1..Len(ALLOWED_IP_RANGES) : InNetwork(ip, ip_network(ALLOWED_IP_RANGES[i]))

(* _check_content_type *)
_check_content_type_raw(content_type) ==
    content_type = <<>> \/ content_type \in ALLOWED_CONTENT_TYPES
_check_content_type(content_type) ==
    \/ content_type = <<>>
    \/ lower(strip(split(content_type, ";")[1])) \in ALLOWED_CONTENT_TYPES

\* url_pattern of _extract_target_url:
\*   ^https:\/\/(?:www\.)?[-a-zA-Z0-9@:%._\+~#=]{1,256}\.[a-zA-Z0-9()]{1,6}\b
\*    (?:[-a-zA-Z0-9()@:%_\+.~#?&\/=]*)$
HostClass(c) == IsAlnum(c) \/ c \in {"-", "@", ":", "%", ".", "_", "+", "~", "#", "="}
TldClass(c) == IsAlnum(c) \/ c \in {"(", ")"}
TailClass(c) ==
    IsAlnum(c) \/ c \in {"-", "(", ")", "@", ":", "%", "_", "+", ".", "~", "#", "?", "&", "/", "="}
WordChar(c) == IsAlnum(c) \/ c = "_"
(* \b after position i of s *)
WordBoundary(s, i) == WordChar(s[i]) # (i < Len(s) /\ WordChar(s[i + 1]))
HttpsPrefix == <<"h","t","t","p","s",":","/","/">>
WwwPrefix == <<"w","w","w",".">>
UrlPatternMatches(url) ==
    /\ startswith(url, HttpsPrefix)
    /\ \E www \in {0, Len(WwwPrefix)} :
         /\ www > 0 => startswith(From(url, Len(HttpsPrefix) + 1), WwwPrefix)
         /\ LET p0 == Len(HttpsPrefix) + www IN
            \E a \in (p0 + 1)..Len(url), b \in (p0 + 3)..Len(url) :
               \* url[p0+1..a] is the host run, url[a+1] the dot, url[a+2..b] the suffix
               /\ a - p0 <= 256
               /\ a + 2 <= b
               /\ b - (a + 1) <= 6
               /\ \A i \in (p0 + 1)..a : HostClass(url[i])
               /\ url[a + 1] = "."
               /\ \A i \in (a + 2)..b : TldClass(url[i])
               /\ WordBoundary(url, b)
               /\ \A i \in (b + 1)..Len(url) : TailClass(url[i])

ProxyPrefix == <<"/","p","r","o","x","y","/">>
(* _extract_target_url *)
_extract_target_url_any_scheme(path) ==
    IF ~startswith(path, ProxyPrefix) THEN None ELSE From(path, Len(ProxyPrefix) + 1)
_extract_target_url(path) ==
    IF ~startswith(path, ProxyPrefix) THEN None
    ELSE LET url == From(path, Len(ProxyPrefix) + 1) IN
         IF ~UrlPatternMatches(url) THEN None ELSE url

(* _validate_target_url: <<valid, error>> *)
_validate_target_url(url) ==
    IF UrlParseError(url) THEN <<FALSE, <<"U","R","L"," ","p","a","r","s","i","n","g"," ","e","r","r","o","r">>>>
    ELSE IF UrlScheme(url) \notin {<<"h","t","t","p">>, <<"h","t","t","p","s">>}
    THEN <<FALSE, <<"I","n","v","a","l","i","d"," ","U","R","L"," ","s","c","h","e","m","e">>>>
    ELSE IF UrlHostname(url) = None THEN <<FALSE, <<"N","o"," ","h","o","s","t","n","a","m","e"," ","i","n"," ","U","R","L">>>>
    ELSE <<TRUE, None>>

(* ip_in_cidr: any exception gives False *)
ip_in_cidr(host_ip, cidr) ==
    LET ip == ip_address(host_ip)
        net == ip_network(cidr)
    IN ip.version # 0 /\ net.version # 0 /\ InNetwork(ip, net)

(* host_matches_pattern *)
host_matches_pattern_any_suffix(h0, pat0) ==
    LET pat == lower(pat0)
        h == lower(h0)
    IN IF Contains(pat, "/") THEN ip_in_cidr(h, pat)
       ELSE IF startswith(pat, <<"*", ".">>) THEN endswith(h, From(pat, 3))
       ELSE h = pat
host_matches_pattern(h0, pat0) ==
    LET pat == lower(pat0)
        h == lower(h0)
    IN IF Contains(pat, "/") THEN ip_in_cidr(h, pat)
       ELSE IF startswith(pat, <<"*", ".">>)
       THEN LET base == From(pat, 3) IN h = base \/ endswith(h, <<".">> \o base)
       ELSE h = pat

-----------------------------------------------------------------------------
(* urllib.parse.urljoin (requests.compat.urljoin), which resolves the      *)
(* Location of a redirect against the current URL.                         *)

uses_relative == {<<>>, <<"h","t","t","p">>, <<"h","t","t","p","s">>, <<"f","t","p">>, <<"f","i","l","e">>, <<"w","s">>, <<"w","s","s">>, <<"s","f","t","p">>}
uses_netloc == uses_relative
uses_params == {<<>>, <<"h","t","t","p">>, <<"h","t","t","p","s">>, <<"f","t","p">>, <<"s","f","t","p">>, <<"s","i","p">>, <<"s","i","p","s">>, <<"t","e","l">>}

(* _splitparams: the first ';' of the last path segment splits off params *)
SplitParams(u) ==
    LET from == IF Contains(u, "/") THEN LastIndexOf(u, "/") ELSE 1
        semis == {i \in from..Len(u) : u[i] = ";"}
    IN IF semis = {} THEN <<u, <<>>>>
       ELSE LET i == CHOOSE k \in semis : \A j \in semis : k <= j
            IN <<SubSeq(u, 1, i - 1), From(u, i + 1)>>
(* urlparse(url, scheme=default) *)
urlparse(url, default) ==
    LET scheme == IF HasScheme(url) THEN UrlScheme(url) ELSE default
        rest == UrlRest(url)
        netloc == UrlNetloc(url)
        afterNet == IF startswith(rest, <<"/", "/">>) THEN From(rest, 3 + Len(netloc)) ELSE rest
        f == partition(afterNet, "#")
        q == partition(f[1], "?")
        pp == IF scheme \in uses_params /\ Contains(q[1], ";")
              THEN SplitParams(q[1]) ELSE <<q[1], <<>>>>
    IN [scheme |-> scheme, netloc |-> netloc, path |-> pp[1], params |-> pp[2],
        query |-> q[3], fragment |-> f[3]]
(* urlunparse *)
urlunparse(scheme, netloc, path, params, query, fragment) ==
    LET u0 == IF params # <<>> THEN path \o <<";">> \o params ELSE path
        u1 == IF netloc # <<>>
                 \/ (scheme # <<>> /\ scheme \in uses_netloc /\ ~startswith(u0, <<"/", "/">>))
              THEN <<"/", "/">> \o netloc
                   \o (IF u0 # <<>> /\ u0[1] # "/" THEN <<"/">> \o u0 ELSE u0)
              ELSE u0
        u2 == IF scheme # <<>> THEN scheme \o <<":">> \o u1 ELSE u1
        u3 == IF query # <<>> THEN u2 \o <<"?">> \o query ELSE u2
    IN IF fragment # <<>> THEN u3 \o <<"#">> \o fragment ELSE u3

RECURSIVE JoinSegments(_)
JoinSegments(segs) ==
    IF segs = <<>> THEN <<>>
    ELSE IF Len(segs) = 1 THEN segs[1]
    ELSE segs[1] \o <<"/">> \o JoinSegments(Tail(segs))
(* the loop of urljoin that removes '.' and '..' segments *)
RECURSIVE ResolveDots(_, _)
ResolveDots(segs, acc) ==
    IF segs = <<>> THEN acc
    ELSE IF Head(segs) = <<".", ".">>
    THEN ResolveDots(Tail(segs), IF acc = <<>> THEN acc ELSE SubSeq(acc, 1, Len(acc) - 1))
    ELSE IF Head(segs) = <<".">> THEN ResolveDots(Tail(segs), acc)
    ELSE ResolveDots(Tail(segs), Append(acc, Head(segs)))
(* segments[1:-1] = filter(None, segments[1:-1]) *)
DropInnerEmpty(segs) ==
    IF Len(segs) <= 2 THEN segs
    ELSE <<segs[1]>> \o SelectSeq(SubSeq(segs, 2, Len(segs) - 1), LAMBDA x : x # <<>>)
              \o <<segs[Len(segs)]>>
(* base_parts: the segments of the base path without its last one *)
BaseParts(bp0) == IF bp0[Len(bp0)] # <<>> THEN SubSeq(bp0, 1, Len(bp0) - 1) ELSE bp0
JoinedSegments(bpath, upath) ==
    IF upath # <<>> /\ upath[1] = "/" THEN split(upath, "/")
    ELSE DropInnerEmpty(BaseParts(split(bpath, "/")) \o split(upath, "/"))
TrailingDot(segments, r0) ==
    IF segments[Len(segments)] \in {<<".">>, <<".", ".">>} THEN Append(r0, <<>>) ELSE r0
OrSlash(joined) == IF joined = <<>> THEN <<"/">> ELSE joined
ResolvedPath(segments) ==
    OrSlash(JoinSegments(TrailingDot(segments, ResolveDots(segments, <<>>))))
(* urljoin once both URLs are parsed *)
JoinParsed(b, u, url) ==
    IF u.scheme # b.scheme \/ u.scheme \notin uses_relative THEN url
    ELSE IF u.scheme \in uses_netloc /\ u.netloc # <<>>
    THEN urlunparse(u.scheme, u.netloc, u.path, u.params, u.query, u.fragment)
    ELSE IF u.path = <<>> /\ u.params = <<>>
    THEN urlunparse(u.scheme, IF u.scheme \in uses_netloc THEN b.netloc ELSE u.netloc,
                    b.path, b.params, IF u.query = <<>> THEN b.query ELSE u.query,
                    u.fragment)
    ELSE urlunparse(u.scheme, IF u.scheme \in uses_netloc THEN b.netloc ELSE u.netloc,
                    ResolvedPath(JoinedSegments(b.path, u.path)),
                    u.params, u.query, u.fragment)
JoinOnto(b, url) == JoinParsed(b, urlparse(url, b.scheme), url)
urljoin(base, url) ==
    IF base = <<>> THEN url
    ELSE IF url = <<>> THEN base
    ELSE JoinOnto(urlparse(base, <<>>), url)

-----------------------------------------------------------------------------
(* The request handler.  ThreadingTCPServer starts one thread and one      *)
(* SecureCORSProxy instance per connection; protocol_version is left at    *)
(* HTTP/1.0, so an instance handles exactly one request.                   *)

NumWorkers == 2
Workers == 1..NumWorkers

RATE_LIMIT == 60
RateWindow == 60
max_redirects == 5

VARIABLES
    ALLOWED_TARGET_PATTERNS, \* class attribute, set once by load_allowed_targets
    rate_limit_store,        \* class attribute SecureCORSProxy.rate_limit_store
    now,                     \* time.time()
    nReq,                    \* requests accepted so far
    admitLog,                \* history: <<identity, time>> -> rate checks admitted
    pc,                      \* per worker: where its handler stands
    request,                 \* per worker: the inbound request
    inst_store,              \* per worker: the instance attribute self.rate_limit_store
    frame,                   \* per worker: locals of the handler (client_ip, current_time,
                             \* allowed, status_code) and, as history, prior: the rate
                             \* checks already admitted for the identity in the window
    fwd,                     \* per worker: locals of _forward_with_redirects
    outbound,                \* per worker: session.request calls issued: how many, the
                             \* last one, and whether it raised
    written,                 \* per worker: responses written to the caller
    checks                   \* per worker, history: the gate checks evaluated, in order

vars == <<ALLOWED_TARGET_PATTERNS, rate_limit_store, now, nReq, admitLog, pc, request,
          inst_store, frame, fwd, outbound, written, checks>>
globals == <<ALLOWED_TARGET_PATTERNS, rate_limit_store, now, nReq, admitLog>>

EmptyDict == [k \in {} |-> 0]
RECURSIVE SumOver(_, _)
SumOver(f, S) ==
    IF S = {} THEN 0
    ELSE LET x == CHOOSE y \in S : TRUE IN f[x] + SumOver(f, S \ {x})
(* the rate checks admitted for identity ip in the 60 seconds before t *)
AdmittedInWindow(ip, t) ==
    SumOver(admitLog, {k \in DOMAIN admitLog : k[1] = ip /\ k[2] > t - RateWindow})
DictPut(d, k, v) == [x \in DOMAIN d \cup {k} |-> IF x = k THEN v ELSE d[x]]

NoRequest == [command |-> "", path |-> <<>>, headers |-> <<>>, client_address |-> <<>>,
              body |-> <<>>]
NoFrame == [client_ip |-> <<>>, current_time |-> 0, prior |-> 0, allowed |-> "unset",
            status_code |-> 0]
NoFwd == [headers |-> {}, current_url |-> <<>>, current_method |-> "", current_data |-> None,
          redirects |-> 0, resp |-> [status |-> 0, headers |-> <<>>, content |-> <<>>]]
NoOutbound == [count |-> 0,
               last |-> [method |-> "", url |-> <<>>, headers |-> {}, data |-> None],
               failed |-> FALSE]
NoInstStore == [set |-> FALSE, dict |-> EmptyDict]

(* header names and values the handler writes or reads *)
H_XRealIP == <<"X","-","R","e","a","l","-","I","P">>
H_XForwardedFor == <<"X","-","F","o","r","w","a","r","d","e","d","-","F","o","r">>
H_ContentType == <<"C","o","n","t","e","n","t","-","T","y","p","e">>
H_ContentLength == <<"C","o","n","t","e","n","t","-","L","e","n","g","t","h">>
H_ContentEncoding == <<"c","o","n","t","e","n","t","-","e","n","c","o","d","i","n","g">>
H_Location == <<"L","o","c","a","t","i","o","n">>
H_Authorization == <<"A","u","t","h","o","r","i","z","a","t","i","o","n">>
H_ACAO == <<"A","c","c","e","s","s","-","C","o","n","t","r","o","l","-","A","l","l","o","w","-","O","r","i","g","i","n">>
H_ACAM == <<"A","c","c","e","s","s","-","C","o","n","t","r","o","l","-","A","l","l","o","w","-","M","e","t","h","o","d","s">>
H_ACAH == <<"A","c","c","e","s","s","-","C","o","n","t","r","o","l","-","A","l","l","o","w","-","H","e","a","d","e","r","s">>
V_Star == <<"*">>
V_TextPlain == <<"t","e","x","t","/","p","l","a","i","n">>
V_Json == <<"a","p","p","l","i","c","a","t","i","o","n","/","j","s","o","n">>
V_Methods == <<"G","E","T",","," ","P","O","S","T",","," ","O","P","T","I","O","N","S",","," ","P","U","T",","," ","P","A","T","C","H",","," ","D","E","L","E","T","E">>
StandardHeaders ==
    << H_Authorization, <<"A","c","c","e","p","t">>, H_ContentType, <<"U","s","e","r","-","A","g","e","n","t">>, <<"I","f","-","M","a","t","c","h">>,
       <<"I","f","-","N","o","n","e","-","M","a","t","c","h">>, <<"O","r","i","g","i","n">>, <<"R","e","f","e","r","e","r">> >>

(* self.headers.get(name): the first header of that name, case-insensitively *)
HeaderHas(hs, name) == \E i \in 1..Len(hs) : lower(hs[i][1]) = lower(name)
HeaderGet(hs, name) ==
    IF HeaderHas(hs, name)
    THEN hs[CHOOSE i \in 1..Len(hs) : /\ lower(hs[i][1]) = lower(name)
                                      /\ \A j \in 1..(i - 1) : lower(hs[j][1]) # lower(name)][2]
    ELSE None
Truthy(v) == v # None /\ v # <<>>

(* load_allowed_targets: [str(p).strip() for p in patterns if str(p).strip()] *)
load_allowed_targets(raw) ==
    LET stripped == [i \in 1..Len(raw) |-> strip(raw[i])]
    IN SelectSeq(stripped, LAMBDA p : p # <<>>)

(* _get_client_ip *)
_get_client_ip_forwarded_first(req) ==
    IF Truthy(HeaderGet(req.headers, H_XForwardedFor))
    THEN strip(split(HeaderGet(req.headers, H_XForwardedFor), ",")[1])
    ELSE IF Truthy(HeaderGet(req.headers, H_XRealIP)) THEN HeaderGet(req.headers, H_XRealIP)
    ELSE req.client_address
_get_client_ip(req) ==
    IF Truthy(HeaderGet(req.headers, H_XRealIP)) THEN HeaderGet(req.headers, H_XRealIP)
    ELSE IF Truthy(HeaderGet(req.headers, H_XForwardedFor))
    THEN strip(split(HeaderGet(req.headers, H_XForwardedFor), ",")[1])
    ELSE req.client_address

(* _is_target_allowed *)
_is_target_allowed_open_when_empty(url) ==
    LET host == UrlHostname(url) IN
    /\ ~UrlParseError(url)
    /\ host # None
    /\ \/ ALLOWED_TARGET_PATTERNS = <<>>
       \/ \E i \in 1..Len(ALLOWED_TARGET_PATTERNS) :
             host_matches_pattern(host, ALLOWED_TARGET_PATTERNS[i])
_is_target_allowed(url) ==
    LET host == UrlHostname(url) IN
    /\ ~UrlParseError(url)
    /\ host # None
    /\ ALLOWED_TARGET_PATTERNS # <<>>
    /\ \E i \in 1..Len(ALLOWED_TARGET_PATTERNS) :
          host_matches_pattern(host, ALLOWED_TARGET_PATTERNS[i])

(* int(s): optional sign, digits, single underscores between digits *)
IntOk(s0) ==
    LET s1 == strip(s0)
        s == IF s1 # <<>> /\ s1[1] \in {"+", "-"} THEN Tail(s1) ELSE s1
    IN /\ s # <<>>
       /\ IsDigit(s[1]) /\ IsDigit(s[Len(s)])
       /\ \A i \in 1..Len(s) : IsDigit(s[i]) \/ (s[i] = "_" /\ IsDigit(s[i + 1]))
IntPositive(s0) ==
    LET s1 == strip(s0)
    IN s1[1] # "-" /\ \E i \in 1..Len(s1) : IsDigit(s1[i]) /\ s1[i] # "0"

(* the responses the handler writes: send_response, send_header*, write *)
TextResponse(status, body) ==
    [status |-> status, headers |-> {<<H_ACAO, V_Star>>, <<H_ContentType, V_TextPlain>>},
     body |-> body]
TargetDeniedBody == <<"{","\"","d","e","t","a","i","l","\"",":","\"","T","a","r","g","e","t"," ","h","o","s","t"," ","n","o","t"," ","a","l","l","o","w","e","d"," ","b","y"," ","p","r","o","x","y"," ","p","o","l","i","c","y","\"","}">>
TargetDenied ==
    [status |-> 403, headers |-> {<<H_ACAO, V_Star>>, <<H_ContentType, V_Json>>},
     body |-> TargetDeniedBody]
BadGatewayWithoutOrigin(desc) == [status |-> 502, headers |-> {}, body |-> desc]
BadGateway(desc) == [status |-> 502, headers |-> {<<H_ACAO, V_Star>>}, body |-> desc]
Preflight ==
    [status |-> 200,
     headers |-> {<<H_ACAO, V_Star>>, <<H_ACAM, V_Methods>>, <<H_ACAH, V_Star>>},
     body |-> <<>>]
InvalidPathBody ==
    <<"I","n","v","a","l","i","d"," ","p","r","o","x","y"," ","p","a","t","h","."," ","M","u","s","t"," ","s","t","a","r","t"," ","w","i","t","h"," ","/","p","r","o","x","y","/"," ","f","o","l","l","o","w","e","d"," ","b","y"," ","a"," ","v","a","l","i","d"," ","H","T","T","P","S"," ","U","R","L">>

-----------------------------------------------------------------------------
(* Actions.                                                                *)

Respond(w, r) == written' = [written EXCEPT ![w] = Append(@, r)]

(* a connection arrives: a fresh handler instance parses one request *)
Accept(w, reqs, maxReq) ==
    /\ pc[w] = "idle"
    /\ nReq < maxReq
    /\ \E r \in reqs : request' = [request EXCEPT ![w] = r]
    /\ nReq' = nReq + 1
    /\ pc' = [pc EXCEPT ![w] = "security_check"]
    /\ UNCHANGED <<ALLOWED_TARGET_PATTERNS, rate_limit_store, now, admitLog, inst_store,
                   frame, fwd, outbound, written, checks>>

(* _security_check, lines 230-239: resolve the identity, check the IP *)
SecurityCheckIp(w) ==
    /\ pc[w] = "security_check"
    /\ LET client_ip == _get_client_ip(request[w]) IN
       /\ checks' = [checks EXCEPT ![w] = Append(@, "ip")]
       /\ IF ~_is_allowed_ip(client_ip)
          THEN /\ frame' = [frame EXCEPT ![w].client_ip = client_ip,
                                         ![w].allowed = "no", ![w].status_code = 403]
               /\ Respond(w, TextResponse(403, <<"A","c","c","e","s","s"," ","d","e","n","i","e","d"," ","f","r","o","m"," ">> \o client_ip))
               /\ pc' = [pc EXCEPT ![w] = "done"]
          ELSE /\ frame' = [frame EXCEPT ![w].client_ip = client_ip]
               /\ pc' = [pc EXCEPT ![w] = "rate_prune"]
               /\ UNCHANGED written
    /\ UNCHANGED <<globals, request, inst_store, fwd, outbound>>

(* self.rate_limit_store as the handler reads it: the instance attribute   *)
(* once one is bound, else the class attribute                             *)
SelfStore(w) == IF inst_store[w].set THEN inst_store[w].dict ELSE rate_limit_store

(* _check_rate_limit, lines 100-105: read the clock, bind the pruned copy   *)
(* to self.rate_limit_store                                                *)
RateLimitPrune(w) ==
    /\ pc[w] = "rate_prune"
    /\ LET minute_ago == now - RateWindow
           old == SelfStore(w)
       IN inst_store' = [inst_store EXCEPT ![w] =
              [set |-> TRUE,
               dict |-> [k \in {x \in DOMAIN old : old[x] > minute_ago} |-> old[k]]]]
    /\ frame' = [frame EXCEPT ![w].current_time = now,
                              ![w].prior = AdmittedInWindow(frame[w].client_ip, now)]
    /\ checks' = [checks EXCEPT ![w] = Append(@, "rate")]
    /\ pc' = [pc EXCEPT ![w] = "rate_count"]
    /\ UNCHANGED <<globals, request, fwd, outbound, written>>

(* lines 108-109: `t > minute_ago and k == ip` names k, which is bound      *)
(* nowhere in scope, so the test raises NameError for the first value that  *)
(* passes t > minute_ago; the sum completes only when no value passes       *)
CountRaises(w) ==
    \E k \in DOMAIN SelfStore(w) : SelfStore(w)[k] > frame[w].current_time - RateWindow
requests_this_minute(w) ==
    Cardinality({k \in DOMAIN SelfStore(w) :
                    SelfStore(w)[k] > frame[w].current_time - RateWindow})

(* lines 108-112: count, and deny at the ceiling *)
RateLimitCount(w) ==
    /\ pc[w] = "rate_count"
    /\ IF CountRaises(w)
       THEN \* the NameError leaves the handler; socketserver closes the connection
            /\ pc' = [pc EXCEPT ![w] = "crashed"]
            /\ UNCHANGED <<written, frame>>
       ELSE IF requests_this_minute(w) >= RATE_LIMIT
       THEN /\ frame' = [frame EXCEPT ![w].allowed = "no", ![w].status_code = 429]
            /\ Respond(w, TextResponse(429, <<"R","a","t","e"," ","l","i","m","i","t"," ","e","x","c","e","e","d","e","d">>))
            /\ pc' = [pc EXCEPT ![w] = "done"]
       ELSE /\ pc' = [pc EXCEPT ![w] = "rate_insert"]
            /\ UNCHANGED <<written, frame>>
    /\ UNCHANGED <<globals, request, inst_store, fwd, outbound, checks>>

NeedsContentTypeCheckUnlessGet(command) == command # "GET"
NeedsContentTypeCheck(command) == command \in {"POST", "PUT", "PATCH"}
ContentTypeOf(req) ==
    IF HeaderHas(req.headers, H_ContentType) THEN HeaderGet(req.headers, H_ContentType)
    ELSE <<>>

(* line 115, then _security_check lines 246-253: record the request, check  *)
(* the content type of POST/PUT/PATCH                                       *)
RateLimitInsertIfTypeAllowed(w) ==
    /\ pc[w] = "rate_insert"
    /\ LET key == <<frame[w].client_ip, frame[w].current_time>>
           denied == /\ NeedsContentTypeCheck(request[w].command)
                     /\ ~_check_content_type(ContentTypeOf(request[w]))
       IN IF denied
          THEN /\ frame' = [frame EXCEPT ![w].allowed = "no", ![w].status_code = 400]
               /\ Respond(w, TextResponse(400, <<"C","o","n","t","e","n","t"," ","t","y","p","e"," ","n","o","t"," ","a","l","l","o","w","e","d",":"," ">>
                                                \o ContentTypeOf(request[w])))
               /\ pc' = [pc EXCEPT ![w] = "done"]
               /\ checks' = [checks EXCEPT ![w] = Append(@, "content_type")]
               /\ UNCHANGED <<inst_store, admitLog>>
          ELSE /\ inst_store' = [inst_store EXCEPT ![w].dict =
                                    DictPut(SelfStore(w), key, frame[w].current_time)]
               /\ admitLog' = DictPut(admitLog, key,
                                      IF key \in DOMAIN admitLog THEN admitLog[key] + 1 ELSE 1)
               /\ frame' = [frame EXCEPT ![w].allowed = "yes"]
               /\ pc' = [pc EXCEPT ![w] = "dispatch"]
               /\ checks' = [checks EXCEPT ![w] =
                                IF NeedsContentTypeCheck(request[w].command)
                                THEN Append(@, "content_type") ELSE @]
               /\ UNCHANGED written
    /\ UNCHANGED <<ALLOWED_TARGET_PATTERNS, rate_limit_store, now, nReq, request,
                   fwd, outbound>>
RateLimitInsert(w) ==
    /\ pc[w] = "rate_insert"
    /\ LET key == <<frame[w].client_ip, frame[w].current_time>> IN
       /\ inst_store' = [inst_store EXCEPT ![w].dict =
                            DictPut(SelfStore(w), key, frame[w].current_time)]
       /\ admitLog' = DictPut(admitLog, key,
                              IF key \in DOMAIN admitLog THEN admitLog[key] + 1 ELSE 1)
    /\ IF NeedsContentTypeCheck(request[w].command)
       THEN /\ checks' = [checks EXCEPT ![w] = Append(@, "content_type")]
            /\ IF ~_check_content_type(ContentTypeOf(request[w]))
               THEN /\ frame' = [frame EXCEPT ![w].allowed = "no", ![w].status_code = 400]
                    /\ Respond(w, TextResponse(400, <<"C","o","n","t","e","n","t"," ","t","y","p","e"," ","n","o","t"," ","a","l","l","o","w","e","d",":"," ">>
                                                     \o ContentTypeOf(request[w])))
                    /\ pc' = [pc EXCEPT ![w] = "done"]
               ELSE /\ frame' = [frame EXCEPT ![w].allowed = "yes"]
                    /\ pc' = [pc EXCEPT ![w] = "dispatch"]
                    /\ UNCHANGED written
       ELSE /\ frame' = [frame EXCEPT ![w].allowed = "yes"]
            /\ pc' = [pc EXCEPT ![w] = "dispatch"]
            /\ UNCHANGED <<written, checks>>
    /\ UNCHANGED <<ALLOWED_TARGET_PATTERNS, rate_limit_store, now, nReq, request,
                   fwd, outbound>>

(* the header dict handed to _forward_with_redirects, as a set of           *)
(* <<name, value>>: lines 304-318 (do_GET) and 417-422 (_proxy_request)     *)
StandardForwarded(hs) ==
    {<<StandardHeaders[i], HeaderGet(hs, StandardHeaders[i])>> :
        i \in {j \in 1..Len(StandardHeaders) : HeaderHas(hs, StandardHeaders[j])}}
CustomForwarded(hs) ==
    {<<hs[i][1], hs[i][2]>> :
        i \in {j \in 1..Len(hs) : /\ startswith(hs[j][1], <<"X", "-">>)
                                  /\ \A k \in 1..(j - 1) : hs[k][1] # hs[j][1]}}
ForwardedHeaders(req) ==
    IF req.command = "GET" THEN StandardForwarded(req.headers) \cup CustomForwarded(req.headers)
    ELSE StandardForwarded(req.headers)

(* lines 423-424: int(Content-Length) and rfile.read(length) *)
LengthRaises(req) ==
    /\ req.command # "GET"
    /\ HeaderHas(req.headers, H_ContentLength)
    /\ ~IntOk(HeaderGet(req.headers, H_ContentLength))
RequestData(req) ==
    IF /\ req.command # "GET"
       /\ HeaderHas(req.headers, H_ContentLength)
       /\ IntPositive(HeaderGet(req.headers, H_ContentLength))
    THEN req.body ELSE None

(* BaseHTTPRequestHandler calls do_<command>: do_OPTIONS answers itself,    *)
(* the other methods forward                                                *)
RoutedToPreflightNever(command) == FALSE
RoutedToPreflight(command) == command = "OPTIONS"

(* do_OPTIONS lines 354-358; do_GET lines 266-325; _proxy_request lines     *)
(* 380-428: what the handler does once _security_check has admitted         *)
Dispatch(w) ==
    /\ pc[w] = "dispatch"
    /\ LET req == request[w]
           url == _extract_target_url(req.path)
       IN IF RoutedToPreflight(req.command)
          THEN /\ Respond(w, Preflight)
               /\ pc' = [pc EXCEPT ![w] = "done"]
               /\ UNCHANGED <<fwd, checks>>
          ELSE IF url = None
          THEN /\ Respond(w, TextResponse(400, InvalidPathBody))
               /\ pc' = [pc EXCEPT ![w] = "done"]
               /\ UNCHANGED <<fwd, checks>>
          ELSE IF ~_validate_target_url(url)[1]
          THEN /\ Respond(w, TextResponse(400, _validate_target_url(url)[2]))
               /\ pc' = [pc EXCEPT ![w] = "done"]
               /\ UNCHANGED <<fwd, checks>>
          ELSE IF ~_is_target_allowed(url)
          THEN /\ Respond(w, TargetDenied)
               /\ pc' = [pc EXCEPT ![w] = "done"]
               /\ checks' = [checks EXCEPT ![w] = Append(@, "target")]
               /\ UNCHANGED fwd
          ELSE IF LengthRaises(req)
          THEN /\ Respond(w, BadGateway(<<"i","n","v","a","l","i","d"," ","l","i","t","e","r","a","l"," ","f","o","r"," ","i","n","t","(",")">>))
               /\ pc' = [pc EXCEPT ![w] = "done"]
               /\ checks' = [checks EXCEPT ![w] = Append(@, "target")]
               /\ UNCHANGED fwd
          ELSE /\ fwd' = [fwd EXCEPT ![w] =
                             [NoFwd EXCEPT !.headers = ForwardedHeaders(req),
                                           !.current_url = url,
                                           !.current_method = req.command,
                                           !.current_data = RequestData(req)]]
               /\ pc' = [pc EXCEPT ![w] = "forward"]
               /\ checks' = [checks EXCEPT ![w] = Append(@, "target")]
               /\ UNCHANGED written
    /\ UNCHANGED <<globals, request, inst_store, frame, outbound>>

(* session.request raises before sending anything for a URL it cannot       *)
(* prepare: a scheme other than http/https (InvalidSchema) or no host       *)
(* (InvalidURL)                                                             *)
CanSend(url) ==
    /\ UrlScheme(url) \in {<<"h","t","t","p">>, <<"h","t","t","p","s">>}
    /\ ~UrlParseError(url)
    /\ UrlHostname(url) # None
RedirectStatus == {301, 302, 303, 307, 308}
RewriteStatus == {301, 302, 303}

(* what the loop of _forward_with_redirects does with a response, lines     *)
(* 463-482: the next locals, and whether the response is returned           *)
AfterResponseDropAuth(f, resp) ==
    LET location == HeaderGet(resp.headers, H_Location) IN
    IF resp.status \in RedirectStatus /\ Truthy(location)
    THEN [locals |-> [f EXCEPT !.current_url = urljoin(f.current_url, location),
                               !.redirects = f.redirects + 1,
                               !.headers = {h \in f.headers : h[1] # H_Authorization}],
          returned |-> f.redirects + 1 > max_redirects]
    ELSE [locals |-> f, returned |-> TRUE]
AfterResponseNoLimit(f, resp) ==
    LET location == HeaderGet(resp.headers, H_Location)
        rewrite == resp.status \in RewriteStatus /\ f.current_method # "GET"
    IN IF resp.status \in RedirectStatus /\ Truthy(location)
       THEN [locals |-> [f EXCEPT !.current_url = urljoin(f.current_url, location),
                                  !.redirects = f.redirects + 1,
                                  !.current_method = IF rewrite THEN "GET" ELSE @,
                                  !.current_data = IF rewrite THEN None ELSE @],
             returned |-> FALSE]
       ELSE [locals |-> f, returned |-> TRUE]
AfterResponseAllowedOnly(f, resp) ==
    LET location == HeaderGet(resp.headers, H_Location)
        rewrite == resp.status \in RewriteStatus /\ f.current_method # "GET"
    IN IF resp.status \in RedirectStatus /\ Truthy(location)
       THEN [locals |-> [f EXCEPT !.current_url = urljoin(f.current_url, location),
                                  !.redirects = f.redirects + 1,
                                  !.current_method = IF rewrite THEN "GET" ELSE @,
                                  !.current_data = IF rewrite THEN None ELSE @],
             returned |-> \/ f.redirects + 1 > max_redirects
                          \/ ~_is_target_allowed(urljoin(f.current_url, location))]
       ELSE [locals |-> f, returned |-> TRUE]
AfterResponseKeepMethod(f, resp) ==
    LET location == HeaderGet(resp.headers, H_Location) IN
    IF resp.status \in RedirectStatus /\ Truthy(location)
    THEN [locals |-> [f EXCEPT !.current_url = urljoin(f.current_url, location),
                               !.redirects = f.redirects + 1],
          returned |-> f.redirects + 1 > max_redirects]
    ELSE [locals |-> f, returned |-> TRUE]
AfterResponse(f, resp) ==
    LET location == HeaderGet(resp.headers, H_Location)
        rewrite == resp.status \in RewriteStatus /\ f.current_method # "GET"
    IN IF resp.status \in RedirectStatus
       THEN IF ~Truthy(location) THEN [locals |-> f, returned |-> TRUE]
            ELSE [locals |-> [f EXCEPT !.current_url = urljoin(f.current_url, location),
                                       !.redirects = f.redirects + 1,
                                       !.current_method = IF rewrite THEN "GET" ELSE @,
                                       !.current_data = IF rewrite THEN None ELSE @],
                  returned |-> f.redirects + 1 > max_redirects]
       ELSE [locals |-> f, returned |-> TRUE]

(* what one session.request call leads to, o being what the network gives: *)
(* an exception leaves the loop for the except clause of the caller (lines  *)
(* 335-341, 438-444), which answers 502 with str(e); a response goes        *)
(* through the loop body                                                    *)
HopResultRetry(f, o) ==
    IF o.kind = "error"
    THEN [pc |-> "forward", locals |-> f, write |-> <<>>]
    ELSE LET a == AfterResponse(f, o.resp) IN
         [pc |-> IF a.returned THEN "relay" ELSE "forward",
          locals |-> [a.locals EXCEPT !.resp = o.resp],
          write |-> <<>>]
HopResult(f, o) ==
    IF o.kind = "error"
    THEN [pc |-> "done", locals |-> f, write |-> <<BadGateway(o.desc)>>]
    ELSE LET a == AfterResponse(f, o.resp) IN
         [pc |-> IF a.returned THEN "relay" ELSE "forward",
          locals |-> [a.locals EXCEPT !.resp = o.resp],
          write |-> <<>>]

(* one iteration of the loop of _forward_with_redirects, lines 459-482      *)
ForwardHop(w, upstream) ==
    /\ pc[w] = "forward"
    /\ LET f == fwd[w] IN
       IF ~CanSend(f.current_url)
       THEN /\ Respond(w, BadGateway(<<"N","o"," ","c","o","n","n","e","c","t","i","o","n"," ","a","d","a","p","t","e","r","s"," ","w","e","r","e"," ","f","o","u","n","d">>))
            /\ pc' = [pc EXCEPT ![w] = "done"]
            /\ UNCHANGED <<fwd, outbound>>
       ELSE \E o \in upstream :
              LET r == HopResult(f, o) IN
              /\ outbound' = [outbound EXCEPT ![w] =
                    [count |-> @.count + 1,
                     last |-> [method |-> f.current_method, url |-> f.current_url,
                               headers |-> f.headers, data |-> f.current_data],
                     failed |-> o.kind = "error"]]
              /\ fwd' = [fwd EXCEPT ![w] = r.locals]
              /\ pc' = [pc EXCEPT ![w] = r.pc]
              /\ written' = [written EXCEPT ![w] = @ \o r.write]
    /\ UNCHANGED <<globals, request, inst_store, frame, checks>>

(* lines 328-334 and 431-437: relay the returned response *)
RelayedHeadersAll(resp) ==
    {<<resp.headers[i][1], resp.headers[i][2]>> : i \in 1..Len(resp.headers)}
RelayedHeaders(resp) ==
    {<<resp.headers[i][1], resp.headers[i][2]>> :
        i \in {j \in 1..Len(resp.headers) : lower(resp.headers[j][1]) # H_ContentEncoding}}
Relay(w) ==
    /\ pc[w] = "relay"
    /\ Respond(w, [status |-> fwd[w].resp.status,
                   headers |-> {<<H_ACAO, V_Star>>} \cup RelayedHeaders(fwd[w].resp),
                   body |-> fwd[w].resp.content])
    /\ pc' = [pc EXCEPT ![w] = "done"]
    /\ UNCHANGED <<globals, request, inst_store, frame, fwd, outbound, checks>>

(* lines 328-341 and 431-444: a write to the caller raises while the        *)
(* response is relayed, either the header flush of line 333/436 or the      *)
(* body write of line 334/437. The except clause starts a 502 response of   *)
(* its own (send_response, end_headers, write), whose writes succeed or     *)
(* raise in turn: nothing reaches the caller, the relayed status alone, or  *)
(* the relayed status followed by the 502 status.                           *)
RelayFails(w) ==
    /\ pc[w] = "relay"
    /\ LET relayed == [status |-> fwd[w].resp.status,
                       headers |-> {<<H_ACAO, V_Star>>} \cup RelayedHeaders(fwd[w].resp),
                       body |-> <<>>]
           handled == BadGateway(<<"[","E","r","r","n","o"," ","3","2","]"," ","B","r","o","k","e","n"," ","p","i","p","e">>)
       IN \E reached \in {<<>>, <<relayed>>, <<relayed, handled>>} :
            /\ written' = [written EXCEPT ![w] = @ \o reached]
            /\ pc' = [pc EXCEPT ![w] = IF Len(reached) = 2 THEN "done" ELSE "crashed"]
    /\ UNCHANGED <<globals, request, inst_store, frame, fwd, outbound, checks>>

(* the connection is closed and the handler instance dropped *)
Finish(w) ==
    /\ pc[w] \in {"done", "crashed"}
    /\ pc' = [pc EXCEPT ![w] = "idle"]
    /\ request' = [request EXCEPT ![w] = NoRequest]
    /\ inst_store' = [inst_store EXCEPT ![w] = NoInstStore]
    /\ frame' = [frame EXCEPT ![w] = NoFrame]
    /\ fwd' = [fwd EXCEPT ![w] = NoFwd]
    /\ outbound' = [outbound EXCEPT ![w] = NoOutbound]
    /\ written' = [written EXCEPT ![w] = <<>>]
    /\ checks' = [checks EXCEPT ![w] = <<>>]
    /\ UNCHANGED globals

(* time passes *)
TickStep == 30
Tick(maxTime) ==
    /\ now + TickStep <= maxTime
    /\ now' = now + TickStep
    /\ UNCHANGED <<ALLOWED_TARGET_PATTERNS, rate_limit_store, nReq, admitLog, pc, request,
                   inst_store, frame, fwd, outbound, written, checks>>

-----------------------------------------------------------------------------
(* Inputs: requests, allowlist files and upstream behaviours.              *)

Req(command, path, headers, peer) ==
    [command |-> command, path |-> path, headers |-> headers, client_address |-> peer,
     body |-> <<"d","a","t","a">>]

Methods == {"GET", "POST", "PUT", "PATCH", "DELETE", "OPTIONS"}

PathAllowed == <<"/","p","r","o","x","y","/","h","t","t","p","s",":","/","/","a","p","i",".","o","k",".","i","o","/","v","1">>
PathOtherHost == <<"/","p","r","o","x","y","/","h","t","t","p","s",":","/","/","e","v","i","l",".","i","o","/","v","1">>
PathUserinfo == <<"/","p","r","o","x","y","/","h","t","t","p","s",":","/","/","a","p","i",".","o","k",".","i","o","@","e","v","i","l",".","i","o","/","v","1">>
PathHttp == <<"/","p","r","o","x","y","/","h","t","t","p",":","/","/","a","p","i",".","o","k",".","i","o","/","v","1">>
PathNoPrefix == <<"/","h","t","t","p","s",":","/","/","a","p","i",".","o","k",".","i","o","/","v","1">>
PathNoHost == <<"/","p","r","o","x","y","/","h","t","t","p","s",":","/","/","@",":",".","a">>
Paths == {PathAllowed, PathOtherHost, PathUserinfo, PathHttp, PathNoPrefix, PathNoHost}

PeerLoopback == <<"1","2","7",".","0",".","0",".","1">>
PeerPublic == <<"2","0","3",".","0",".","1","1","3",".","9">>

(* who the client is: the identity headers and the transport peer address *)
Identity(headers, peer) == [headers |-> headers, peer |-> peer]
Identities ==
    { Identity(<<>>, PeerLoopback),
      Identity(<<>>, PeerPublic),
      Identity(<< <<H_XRealIP, <<"1","0",".","0",".","0",".","1">>>> >>, PeerPublic),
      Identity(<< <<H_XRealIP, <<"8",".","8",".","8",".","8">>>>, <<H_XForwardedFor, <<"1","0",".","0",".","0",".","1">>>> >>,
               PeerLoopback),
      Identity(<< <<H_XRealIP, <<>>>> >>, PeerLoopback),
      Identity(<< <<H_XRealIP, <<>>>>, <<H_XForwardedFor, <<"8",".","8",".","8",".","8">>>> >>, PeerLoopback),
      Identity(<< <<H_XForwardedFor, <<>>>> >>, PeerLoopback),
      Identity(<< <<<<"x","-","f","o","r","w","a","r","d","e","d","-","f","o","r">>, <<"1","9","2",".","1","6","8",".","1",".","7"," ",","," ","8",".","8",".","8",".","8">>>> >>, PeerPublic),
      Identity(<< <<H_XForwardedFor, <<"8",".","8",".","8",".","8",","," ","1","0",".","0",".","0",".","1">>>> >>, PeerLoopback),
      Identity(<< <<<<"x","-","r","e","a","l","-","i","p">>, <<":",":","1">>>> >>, PeerPublic),
      Identity(<< <<H_XRealIP, <<"l","o","c","a","l","h","o","s","t">>>> >>, PeerLoopback) }
ContentTypeHeaders ==
    { <<>>,
      << <<H_ContentType, <<"A","p","p","l","i","c","a","t","i","o","n","/","J","S","O","N",";"," ","c","h","a","r","s","e","t","=","u","t","f","-","8">>>> >>,
      << <<<<"c","o","n","t","e","n","t","-","t","y","p","e">>, <<"a","p","p","l","i","c","a","t","i","o","n","/","o","c","t","e","t","-","s","t","r","e","a","m">>>> >>,
      << <<H_ContentType, <<"t","e","x","t","/","h","t","m","l",";","a","p","p","l","i","c","a","t","i","o","n","/","j","s","o","n">>>> >> }
OtherHeaders ==
    << <<<<"a","u","t","h","o","r","i","z","a","t","i","o","n">>, <<"B","e","a","r","e","r"," ","X">>>>, <<<<"C","o","o","k","i","e">>, <<"c","=","1">>>>,
       <<<<"X","-","T","r","a","c","e">>, <<"t","1">>>>, <<H_ContentLength, <<"4">>>> >>

(* every method, path and content type from an admitted and from a refused *)
(* peer, and every way of stating an identity with requests that pass or   *)
(* fail each of the later checks                                           *)
Requests ==
    { Req(m, p, id.headers \o ch \o OtherHeaders, id.peer) :
        m \in Methods, p \in Paths,
        id \in {Identity(<<>>, PeerLoopback), Identity(<<>>, PeerPublic)},
        ch \in ContentTypeHeaders }
    \cup
    { Req(m, p, id.headers \o ch \o OtherHeaders, id.peer) :
        m \in {"GET", "POST", "OPTIONS"}, p \in {PathAllowed, PathOtherHost, PathHttp},
        id \in Identities,
        ch \in {<<>>, << <<<<"c","o","n","t","e","n","t","-","t","y","p","e">>, <<"a","p","p","l","i","c","a","t","i","o","n","/","o","c","t","e","t","-","s","t","r","e","a","m">>>> >>} }
    \cup
    { Req("GET", <<"/","p","r","o","x","y","/","h","t","t","p","s",":","/","/">> \o host \o <<"/","v","1">>, OtherHeaders, PeerLoopback) :
        host \in {<<"o","k",".","i","o">>, <<"e","v","i","l","o","k",".","i","o">>, <<"A","P","I",".","O","k",".","i","o">>, <<"g","w",".","l","a","n">>, <<"x","g","w",".","l","a","n">>,
                  <<"1","0",".","0",".","0",".","0">>, <<"1","0",".","2","5","5",".","2","5","5",".","2","5","5">>, <<"9",".","2","5","5",".","2","5","5",".","2","5","5">>, <<"1","1",".","0",".","0",".","0">>} }

(* the "allowed_targets" list of allowed-targets.json; <<>> also stands for *)
(* no file found                                                            *)
AllowlistFiles ==
    { <<>>,
      << <<" ","*",".","o","k",".","i","o"," ">>, <<" "," ">>, <<"1","0",".","0",".","0",".","0","/","8">> >>,
      << <<"G","W",".","L","a","n">>, <<"*",".","O","K",".","i","o">> >> }

Response(status, headers) ==
    [kind |-> "response",
     resp |-> [status |-> status, headers |-> headers, content |-> <<"p","a","y","l","o","a","d">>]]
NetworkError == [kind |-> "error", desc |-> <<"C","o","n","n","e","c","t","i","o","n"," ","r","e","f","u","s","e","d">>]
BaseResponseHeaders ==
    << <<H_ContentType, V_Json>>, <<<<"C","o","n","t","e","n","t","-","E","n","c","o","d","i","n","g">>, <<"g","z","i","p">>>> >>

(* a final answer, a redirect to another host, a network failure *)
UpstreamBasic ==
    { NetworkError,
      Response(200, BaseResponseHeaders),
      Response(302, BaseResponseHeaders \o << <<H_Location, <<"h","t","t","p","s",":","/","/","e","v","i","l",".","i","o","/","y">>>> >>) }

-----------------------------------------------------------------------------
(* Specifications.                                                         *)

InitWith(files) ==
    /\ \E raw \in files : ALLOWED_TARGET_PATTERNS = load_allowed_targets(raw)
    /\ rate_limit_store = EmptyDict
    /\ now = 0
    /\ nReq = 0
    /\ admitLog = EmptyDict
    /\ pc = [w \in Workers |-> "idle"]
    /\ request = [w \in Workers |-> NoRequest]
    /\ inst_store = [w \in Workers |-> NoInstStore]
    /\ frame = [w \in Workers |-> NoFrame]
    /\ fwd = [w \in Workers |-> NoFwd]
    /\ outbound = [w \in Workers |-> NoOutbound]
    /\ written = [w \in Workers |-> <<>>]
    /\ checks = [w \in Workers |-> <<>>]

Handle(w, upstream) ==
    \/ SecurityCheckIp(w)
    \/ RateLimitPrune(w)
    \/ RateLimitCount(w)
    \/ RateLimitInsert(w)
    \/ Dispatch(w)
    \/ ForwardHop(w, upstream)
    \/ Relay(w)
    \/ Finish(w)

(* one connection at a time, any request of Requests *)
MaxRequests == 1
MaxTime == 30
Init == InitWith(AllowlistFiles)
Next ==
    \/ Accept(1, Requests, MaxRequests)
    \/ Handle(1, UpstreamBasic)
    \/ Tick(MaxTime)
Spec == Init /\ [][Next]_vars

(* one admitted client following redirect chains of every kind *)
JsonHeaders == << <<H_ContentType, V_Json>> >>
RedirectRequests ==
    { Req(m, PathAllowed, JsonHeaders \o OtherHeaders, PeerLoopback) :
        m \in {"GET", "POST", "DELETE"} }
RedirectLocations ==
    { <<>>,
      << <<H_Location, <<"h","t","t","p","s",":","/","/","e","v","i","l",".","i","o","/","y">>>> >>,
      << <<<<"l","o","c","a","t","i","o","n">>, <<"/","z">>>> >>,
      << <<H_Location, <<"f","t","p",":","/","/","a","p","i",".","o","k",".","i","o","/","f">>>> >> }
UpstreamRedirects ==
    { NetworkError }
    \cup { Response(s, BaseResponseHeaders \o loc) :
             s \in {200} \cup RedirectStatus, loc \in RedirectLocations }
InitRedirect == InitWith({<< <<"*",".","o","k",".","i","o">> >>})
NextRedirect ==
    \/ Accept(1, RedirectRequests, MaxRequests)
    \/ Handle(1, UpstreamRedirects)
    \/ Tick(MaxTime)
SpecRedirect == InitRedirect /\ [][NextRedirect]_vars

(* one identity sending request after request inside one window *)
RateRequests == 61
RateMenu ==
    { Req("GET", p, OtherHeaders, PeerLoopback) : p \in {PathAllowed, PathOtherHost} }
UpstreamFinal == { NetworkError, Response(200, BaseResponseHeaders) }
NextRate ==
    \/ Accept(1, RateMenu, RateRequests)
    \/ Handle(1, UpstreamFinal)
    \/ Tick(MaxTime)
SpecRate == InitRedirect /\ [][NextRate]_vars

(* ThreadingTCPServer, line 491: one handler thread per connection, the     *)
(* steps of the threads interleaved, a relay that may fail                  *)
SpecThreads ==
    InitRedirect /\ [][\/ \E w \in Workers : \/ Accept(w, RateMenu, NumWorkers)
                                             \/ Handle(w, UpstreamFinal)
                                             \/ RelayFails(w)
                       \/ Tick(MaxTime)]_vars

-----------------------------------------------------------------------------
(* Properties.                                                             *)

AccessDenied(ip) == TextResponse(403, <<"A","c","c","e","s","s"," ","d","e","n","i","e","d"," ","f","r","o","m"," ">> \o ip)
RateLimited == TextResponse(429, <<"R","a","t","e"," ","l","i","m","i","t"," ","e","x","c","e","e","d","e","d">>)
ContentTypeDenied(ct) == TextResponse(400, <<"C","o","n","t","e","n","t"," ","t","y","p","e"," ","n","o","t"," ","a","l","l","o","w","e","d",":"," ">> \o ct)
BodyMethods == {"POST", "PUT", "PATCH"}

(* the hostname of the URL extracted from the request path matches some    *)
(* configured pattern                                                      *)
ExtractedHostMatches(req) ==
    LET url == _extract_target_url(req.path) IN
    /\ url # None
    /\ UrlHostname(url) # None
    /\ \E i \in 1..Len(ALLOWED_TARGET_PATTERNS) :
          host_matches_pattern(UrlHostname(url), ALLOWED_TARGET_PATTERNS[i])
TargetChecked(w) == "target" \in Range(checks[w])

\* C1: no outbound request is issued unless the hostname of the URL extracted
\* from the request path matches an allowed-target pattern; with an empty
\* pattern list every request that reaches the target check is answered 403
\* with the JSON detail body and issues no outbound request.
C1_TargetAllowlist ==
    \A w \in Workers :
        /\ outbound[w].count > 0 => ExtractedHostMatches(request[w])
        /\ (ALLOWED_TARGET_PATTERNS = <<>> /\ TargetChecked(w))
              => /\ written[w] = <<TargetDenied>>
                 /\ outbound[w].count = 0
                 /\ pc[w] = "done"
C1_Witness ==
    \E w \in Workers :
        /\ ALLOWED_TARGET_PATTERNS = <<>>
        /\ TargetChecked(w)
        /\ request[w].path = PathAllowed
        /\ written[w] = <<TargetDenied>>

(* the rate check of w has decided *)
RateDecided(w) == "rate" \in Range(checks[w]) /\ pc[w] # "rate_count"

\* C2: while an identity has fewer than RATE_LIMIT admitted requests in the
\* trailing 60 seconds the rate check admits its request, and the request
\* that finds RATE_LIMIT admitted ones in the window is denied with 429.
C2_RateLimit ==
    \A w \in Workers :
        RateDecided(w) =>
            IF frame[w].prior < RATE_LIMIT
            THEN pc[w] # "crashed" /\ (written[w] # <<>> => written[w][1] # RateLimited)
            ELSE written[w] = <<RateLimited>>

\* C3: every outbound request of a redirect chain carries exactly the header
\* mapping the caller passed in, Authorization included, whatever the status
\* code, the host and the method of the hop.
C3_HeadersPreserved ==
    \A w \in Workers :
        outbound[w].count > 0 =>
            /\ outbound[w].last.headers = ForwardedHeaders(request[w])
            /\ HeaderHas(request[w].headers, H_Authorization)
                  => <<H_Authorization, HeaderGet(request[w].headers, H_Authorization)>>
                        \in outbound[w].last.headers
C3_Witness ==
    \E w \in Workers :
        /\ outbound[w].count >= 2
        /\ request[w].command = "POST"
        /\ outbound[w].last.method = "GET"
        /\ UrlHostname(outbound[w].last.url) = <<"e","v","i","l",".","i","o">>
        /\ <<H_Authorization, <<"B","e","a","r","e","r"," ","X">>>> \in outbound[w].last.headers

(* ip parses as an address inside a configured range *)
AllowedNetworks == {ip_network(ALLOWED_IP_RANGES[i]) : i \in 1..Len(ALLOWED_IP_RANGES)}
InAllowedRange(ip) ==
    LET addr == ip_address(ip) IN
    /\ addr.version # 0
    /\ \E net \in AllowedNetworks : InNetwork(addr, net)
FirstForwarded(req) == strip(split(HeaderGet(req.headers, H_XForwardedFor), ",")[1])
(* the identity when a header counts as soon as it is present *)
IdentityIfPresent(req) ==
    IF HeaderHas(req.headers, H_XRealIP) THEN HeaderGet(req.headers, H_XRealIP)
    ELSE IF HeaderHas(req.headers, H_XForwardedFor) THEN FirstForwarded(req)
    ELSE req.client_address
(* the identity when a header counts only with a non-empty value *)
IdentityIfNonEmpty(req) ==
    IF HeaderHas(req.headers, H_XRealIP) /\ HeaderGet(req.headers, H_XRealIP) # <<>>
    THEN HeaderGet(req.headers, H_XRealIP)
    ELSE IF /\ HeaderHas(req.headers, H_XForwardedFor)
            /\ HeaderGet(req.headers, H_XForwardedFor) # <<>>
    THEN FirstForwarded(req)
    ELSE req.client_address
IpChecked(w) == "ip" \in Range(checks[w])
IpCheckHolds(w, id) ==
    IF ~InAllowedRange(id)
    THEN written[w] = <<AccessDenied(id)>> /\ outbound[w].count = 0 /\ pc[w] = "done"
    ELSE written[w] # <<>> => written[w][1] # AccessDenied(id)

\* C4 as stated: the identity is X-Real-IP if present, else the first trimmed
\* entry of X-Forwarded-For if present, else the peer address; an identity
\* that is no IP address or lies in no allowed range is answered 403 with no
\* outbound request, any other identity is not denied by the IP check.
C4_IdentityIfPresent ==
    \A w \in Workers :
        IpChecked(w) => LET id == IdentityIfPresent(request[w]) IN IpCheckHolds(w, id)

\* C4 amended: the same, with X-Real-IP and X-Forwarded-For counting only when
\* present with a non-empty value.
C4_IdentityIfNonEmpty ==
    \A w \in Workers :
        IpChecked(w) =>
            LET id == IdentityIfNonEmpty(request[w]) IN
            /\ frame[w].client_ip = id
            /\ IpCheckHolds(w, id)
C4_Witness ==
    \E w \in Workers :
        /\ IpChecked(w)
        /\ HeaderHas(request[w].headers, H_XRealIP)
        /\ HeaderGet(request[w].headers, H_XRealIP) = <<>>
        /\ ~HeaderHas(request[w].headers, H_XForwardedFor)
        /\ request[w].client_address = PeerLoopback
        /\ frame[w].client_ip = PeerLoopback
        /\ frame[w].allowed = "yes"

(* the request of w has passed the IP check and the rate check *)
PastRateCheck(w) ==
    /\ RateDecided(w)
    /\ pc[w] \notin {"rate_insert", "crashed"}
    /\ frame[w].status_code # 429
BaseType(ct) == lower(strip(split(ct, ";")[1]))

\* C5: a POST, PUT or PATCH that passed the IP and rate checks and declares a
\* content type whose base type is not allowed is answered 400 with no
\* outbound request; one without a content type is not denied by this check;
\* GET, DELETE and OPTIONS are never denied by it.
C5_ContentType ==
    \A w \in Workers :
        PastRateCheck(w) =>
            LET req == request[w]
                ct == ContentTypeOf(req)
                denied == written[w] # <<>> /\ written[w][1] = ContentTypeDenied(ct)
            IN /\ (/\ req.command \in BodyMethods
                   /\ ct # <<>>
                   /\ BaseType(ct) \notin ALLOWED_CONTENT_TYPES)
                     => /\ written[w] = <<ContentTypeDenied(ct)>>
                        /\ frame[w].status_code = 400
                        /\ outbound[w].count = 0
                        /\ pc[w] = "done"
               /\ (req.command \in BodyMethods /\ ~HeaderHas(req.headers, H_ContentType))
                     => ~denied /\ frame[w].status_code # 400
               /\ req.command \in {"GET", "DELETE", "OPTIONS"}
                     => ~denied /\ frame[w].status_code # 400
C5_Witness ==
    \E w \in Workers :
        /\ PastRateCheck(w)
        /\ request[w].command = "POST"
        /\ ContentTypeOf(request[w]) = <<"a","p","p","l","i","c","a","t","i","o","n","/","o","c","t","e","t","-","s","t","r","e","a","m">>
        /\ written[w] = <<ContentTypeDenied(<<"a","p","p","l","i","c","a","t","i","o","n","/","o","c","t","e","t","-","s","t","r","e","a","m">>)>>
        /\ outbound[w].count = 0

(* what a request fails, by the gate's rules *)
FailsIp(w) == ~InAllowedRange(frame[w].client_ip)
FailsRate(w) == frame[w].prior >= RATE_LIMIT
FailsContentType(w) ==
    /\ request[w].command \in BodyMethods
    /\ ContentTypeOf(request[w]) # <<>>
    /\ BaseType(ContentTypeOf(request[w])) \notin ALLOWED_CONTENT_TYPES
FailsTarget(w) ==
    /\ request[w].command # "OPTIONS"
    /\ _extract_target_url(request[w].path) # None
    /\ UrlHostname(_extract_target_url(request[w].path)) # None
    /\ ~ExtractedHostMatches(request[w])

\* C6: the gate checks run in the order IP, rate, content type, target; the
\* earliest failing check decides the status (403, 429, 400, 403) and no
\* later check is evaluated for that request.
C6_GateOrder ==
    \A w \in Workers :
        pc[w] = "done" =>
            IF FailsIp(w)
            THEN written[w] = <<AccessDenied(frame[w].client_ip)>> /\ checks[w] = <<"ip">>
            ELSE IF FailsRate(w)
            THEN written[w] = <<RateLimited>> /\ checks[w] = <<"ip", "rate">>
            ELSE IF FailsContentType(w)
            THEN /\ written[w] = <<ContentTypeDenied(ContentTypeOf(request[w]))>>
                 /\ checks[w] = <<"ip", "rate", "content_type">>
            ELSE FailsTarget(w)
                    => written[w] = <<TargetDenied>> /\ checks[w][Len(checks[w])] = "target"

(* a turn of the loop of w that goes round again *)
LoopsAgain(w) ==
    /\ pc[w] = "forward"
    /\ pc'[w] = "forward"
    /\ <<fwd[w], outbound[w]>>' # <<fwd[w], outbound[w]>>
C7_Bounded ==
    \A w \in Workers :
        /\ outbound[w].count <= max_redirects + 1
        /\ fwd[w].redirects > max_redirects
              => /\ pc[w] \in {"relay", "done"}
                 /\ fwd[w].resp.status \in RedirectStatus
                 /\ pc[w] = "done"
                       => /\ Len(written[w]) = 1
                          /\ written[w][1].status = fwd[w].resp.status

\* C7: whatever the upstream answers, every turn of the redirect loop that goes
\* round again has issued one more outbound request and no chain issues more
\* than max_redirects + 1 of them, so the loop ends; when the redirect counter
\* exceeds max_redirects the redirect response just received is returned and
\* relayed with its own 3xx status.
C7_RedirectsTerminate ==
    /\ []C7_Bounded
    /\ [][\A w \in Workers :
             LoopsAgain(w) => /\ outbound'[w].count = outbound[w].count + 1
                              /\ fwd'[w].redirects = fwd[w].redirects + 1]_vars
C7_Witness ==
    \E w \in Workers :
        /\ outbound[w].count = max_redirects + 1
        /\ fwd[w].redirects = max_redirects + 1
        /\ pc[w] = "done"
        /\ written[w][1].status \in RedirectStatus

\* C8: when the outbound request of a hop fails at the network level, the hop
\* is not retried, no further outbound request is issued for that inbound
\* request, and the caller receives 502 with the failure description.
C8_Failed ==
    \A w \in Workers :
        outbound[w].failed => pc[w] = "done" /\ written[w] = <<BadGateway(NetworkError.desc)>>
C8_NoRetry ==
    /\ []C8_Failed
    /\ [][\A w \in Workers :
             outbound[w].failed => outbound'[w].count \in {outbound[w].count, 0}]_vars
C8_Witness ==
    \E w \in Workers :
        /\ outbound[w].failed
        /\ outbound[w].count >= 2
        /\ written[w] = <<BadGateway(NetworkError.desc)>>

\* C9: a GET, POST, PUT, PATCH or DELETE admitted by the gate whose path does
\* not start with /proxy/, or whose remainder does not match the https URL
\* grammar, is answered 400 with a plaintext body and no outbound request.
C9_InvalidPath ==
    \A w \in Workers :
        (/\ frame[w].allowed = "yes"
         /\ pc[w] # "dispatch"
         /\ request[w].command # "OPTIONS"
         /\ \/ ~startswith(request[w].path, ProxyPrefix)
            \/ ~UrlPatternMatches(From(request[w].path, Len(ProxyPrefix) + 1)))
            => /\ written[w] = <<TextResponse(400, InvalidPathBody)>>
               /\ <<H_ContentType, V_TextPlain>> \in written[w][1].headers
               /\ outbound[w].count = 0
               /\ pc[w] = "done"
C9_Witness ==
    \E w \in Workers :
        /\ frame[w].allowed = "yes"
        /\ request[w].command = "DELETE"
        /\ request[w].path = PathHttp
        /\ written[w] = <<TextResponse(400, InvalidPathBody)>>
        /\ outbound[w].count = 0

\* C10: an OPTIONS request never causes an outbound request, whatever its
\* path: admitted by the gate it is answered 200 with
\* Access-Control-Allow-Methods and Access-Control-Allow-Headers, denied by the
\* gate it is answered with the gate's status.
C10_Preflight ==
    \A w \in Workers :
        request[w].command = "OPTIONS" =>
            /\ outbound[w].count = 0
            /\ pc[w] \notin {"forward", "relay"}
            /\ pc[w] = "done" =>
                  /\ Len(written[w]) = 1
                  /\ IF frame[w].allowed = "yes"
                     THEN /\ written[w][1].status = 200
                          /\ <<H_ACAM, V_Methods>> \in written[w][1].headers
                          /\ <<H_ACAH, V_Star>> \in written[w][1].headers
                     ELSE /\ frame[w].allowed = "no"
                          /\ written[w][1].status = frame[w].status_code
                          /\ frame[w].status_code \in {403, 429}
C10_Witness ==
    \E w \in Workers :
        /\ request[w].command = "OPTIONS"
        /\ request[w].path = PathAllowed
        /\ ALLOWED_TARGET_PATTERNS # <<>>
        /\ frame[w].allowed = "yes"
        /\ pc[w] = "done"
        /\ written[w][1].status = 200

\* C11: every response written to a caller, whichever path of the handlers
\* wrote it, carries Access-Control-Allow-Origin: *.
C11_CorsHeader ==
    \A w \in Workers :
        \A i \in 1..Len(written[w]) : <<H_ACAO, V_Star>> \in written[w][i].headers
C11_Witness ==
    \E w \in Workers :
        /\ outbound[w].failed
        /\ Len(written[w]) = 1
        /\ written[w][1].status = 502
        /\ <<H_ACAO, V_Star>> \in written[w][1].headers

(* the chain of w ended with a response returned to the handler and relayed *)
ForwardingSucceeded(w) ==
    /\ pc[w] = "done"
    /\ outbound[w].count > 0
    /\ ~outbound[w].failed
    /\ CanSend(fwd[w].current_url) \/ fwd[w].redirects > max_redirects

\* C12: when forwarding succeeds the caller receives one response with the
\* status and the body of the last upstream response of the chain and, besides
\* the CORS header, exactly the headers of that response whose name is not
\* Content-Encoding in any letter case; no header of an earlier response of
\* the chain is relayed.
C12_RelayFidelity ==
    \A w \in Workers :
        ForwardingSucceeded(w) =>
            LET final == fwd[w].resp IN
            /\ Len(written[w]) = 1
            /\ written[w][1].status = final.status
            /\ written[w][1].body = final.content
            /\ written[w][1].headers \ {<<H_ACAO, V_Star>>}
                  = {h \in Range(final.headers) : lower(h[1]) # <<"c","o","n","t","e","n","t","-","e","n","c","o","d","i","n","g">>}
C12_Witness ==
    \E w \in Workers :
        /\ ForwardingSucceeded(w)
        /\ outbound[w].count >= 2
        /\ written[w][1].status = 200
        /\ <<H_ContentType, V_Json>> \in written[w][1].headers
        /\ \A h \in written[w][1].headers :
              lower(h[1]) \notin {<<"l","o","c","a","t","i","o","n">>, <<"c","o","n","t","e","n","t","-","e","n","c","o","d","i","n","g">>}

TargetChecks(w) == Cardinality({i \in 1..Len(checks[w]) : checks[w][i] = "target"})
(* the last response w received is a redirect with a Location, below the   *)
(* redirect limit                                                          *)
RedirectToFollow(w) ==
    /\ outbound[w].count > 0
    /\ ~outbound[w].failed
    /\ fwd[w].resp.status \in RedirectStatus
    /\ HeaderGet(fwd[w].resp.headers, H_Location) \notin {None, <<>>}
    /\ fwd[w].redirects <= max_redirects

\* C13: the target allowlist is evaluated once per inbound request, before the
\* first outbound request; a redirect with a Location, below the redirect
\* limit, is followed to the URL the Location resolves to against the URL
\* just requested, whatever its host and scheme, with the same headers and
\* with no further evaluation of the allowlist.
C13_RedirectsUnchecked ==
    \A w \in Workers :
        /\ TargetChecks(w) <= 1
        /\ outbound[w].count > 0 => TargetChecks(w) = 1
        /\ RedirectToFollow(w) =>
              /\ fwd[w].current_url
                    = urljoin(outbound[w].last.url, HeaderGet(fwd[w].resp.headers, H_Location))
              /\ fwd[w].headers = outbound[w].last.headers
              /\ \/ pc[w] = "forward"
                 \/ pc[w] = "done" /\ ~CanSend(fwd[w].current_url)
C13_Witness ==
    \E w \in Workers :
        /\ outbound[w].count >= 2
        /\ UrlHostname(outbound[w].last.url) = <<"e","v","i","l",".","i","o">>
        /\ \A i \in 1..Len(ALLOWED_TARGET_PATTERNS) :
              ~host_matches_pattern(<<"e","v","i","l",".","i","o">>, ALLOWED_TARGET_PATTERNS[i])
        /\ <<H_Authorization, <<"B","e","a","r","e","r"," ","X">>>> \in outbound[w].last.headers
        /\ request[w].command = "GET"


(* the stores a rate check can read: the class attribute and the          *)
(* attribute of each live handler                                         *)
Recorded(key) ==
    \/ key \in DOMAIN rate_limit_store
    \/ \E w \in Workers : key \in DOMAIN inst_store[w].dict

\* C14: under every interleaving of the handler threads no timestamp recorded
\* by an admitted rate check is lost while it is inside the window, and no
\* identity has more than RATE_LIMIT requests admitted inside one 60-second
\* window.
C14_AtomicChecks ==
    \A key \in DOMAIN admitLog :
        key[2] > now - RateWindow =>
            /\ Recorded(key)
            /\ AdmittedInWindow(key[1], now) <= RATE_LIMIT

\* C15: the rate-limit store is one process-wide store: when the rate check
\* of a request reads the store to count, every timestamp that the admitted
\* check of an earlier request recorded, and that is not more than 60
\* seconds old, is in the store it reads.
C15_SharedStore ==
    \A w \in Workers :
        pc[w] = "rate_count" =>
            \A key \in DOMAIN admitLog :
                key[2] > frame[w].current_time - RateWindow => key \in DOMAIN SelfStore(w)

(* w has just sent a hop that follows the response to its previous hop *)
NextHop(w) == outbound[w].count > 0 /\ outbound'[w].count = outbound[w].count + 1

\* C16: a hop that follows a 301, 302 or 303 response to a hop whose method
\* was not GET is a GET with no body; a hop that follows a 307 or 308
\* response has the method and the body of the hop before it; a hop that
\* follows a body-less GET is a body-less GET, whatever the status followed.
C16_MethodRewrite ==
    [][\A w \in Workers :
          NextHop(w) =>
              LET prev == outbound[w].last
                  status == fwd[w].resp.status
                  hop == outbound'[w].last
              IN /\ status \in {301, 302, 303} /\ prev.method # "GET"
                    => hop.method = "GET" /\ hop.data = None
                 /\ status \in {307, 308}
                    => hop.method = prev.method /\ hop.data = prev.data
                 /\ prev.method = "GET" /\ prev.data = None
                    => hop.method = "GET" /\ hop.data = None]_vars
C16_Witness ==
    \E w \in Workers :
        /\ request[w].command = "POST"
        /\ outbound[w].count >= 3
        /\ outbound[w].last.method = "GET"
        /\ outbound[w].last.data = None
        /\ fwd[w].resp.status = 308
        /\ RedirectToFollow(w)
        /\ fwd[w].current_method = "GET"
        /\ fwd[w].current_data = None

(* the timestamps the request of w has recorded, and the one line 115 names *)
RecordedBy(w) == DOMAIN inst_store[w].dict
OwnTimestamp(w) == <<frame[w].client_ip, frame[w].current_time>>
DeniedByIpOrRate(w) ==
    written[w] # <<>> /\ written[w][1] \in {AccessDenied(frame[w].client_ip), RateLimited}

\* C17: a request that is past the IP check and the rate check has recorded
\* exactly one timestamp, for its identity and its check time, whatever it is
\* answered afterwards (400, 403 target denied, 502, preflight 200, a relayed
\* response); a request denied by the IP check or the rate check has
\* recorded none.
C17_RecordedIffAdmitted ==
    \A w \in Workers :
        pc[w] \in {"dispatch", "forward", "relay", "done"} =>
            IF DeniedByIpOrRate(w) \/ ~InAllowedRange(frame[w].client_ip)
            THEN RecordedBy(w) = {}
            ELSE /\ RecordedBy(w) = {OwnTimestamp(w)}
                 /\ OwnTimestamp(w) \in DOMAIN admitLog
C17_Witness ==
    \E w \in Workers :
        /\ pc[w] = "done"
        /\ request[w].command = "PUT"
        /\ written[w] = <<ContentTypeDenied(<<"t","e","x","t","/","h","t","m","l",";","a","p","p","l","i","c","a","t","i","o","n","/","j","s","o","n">>)>>
        /\ InAllowedRange(frame[w].client_ip)
        /\ RecordedBy(w) = {OwnTimestamp(w)}

(* the headers the forwarding allowlist lets through *)
ForwardAllowlist ==
    {<<"A","u","t","h","o","r","i","z","a","t","i","o","n">>, <<"A","c","c","e","p","t">>, <<"C","o","n","t","e","n","t","-","T","y","p","e">>, <<"U","s","e","r","-","A","g","e","n","t">>, <<"I","f","-","M","a","t","c","h">>,
     <<"I","f","-","N","o","n","e","-","M","a","t","c","h">>, <<"O","r","i","g","i","n">>, <<"R","e","f","e","r","e","r">>}
AllowlistedOrCustom(req) ==
    {<<n, HeaderGet(req.headers, n)>> : n \in {m \in ForwardAllowlist : HeaderHas(req.headers, m)}}
    \cup {h \in Range(req.headers) : Len(h[1]) >= 2 /\ SubSeq(h[1], 1, 2) = <<"X","-">>}

\* C18: for a forwarded request of any method the headers of the first
\* outbound request are exactly the inbound headers named in the forwarding
\* allowlist plus every inbound header whose name begins with X-.
C18_ForwardedHeaders ==
    \A w \in Workers :
        outbound[w].count = 1 => outbound[w].last.headers = AllowlistedOrCustom(request[w])

\* C19: whichever stage of a request fails, at most one response status is
\* ever written to its caller, and a request whose handler has returned has
\* had exactly one written.
C19_OneResponse ==
    \A w \in Workers :
        /\ Len(written[w]) <= 1
        /\ pc[w] = "done" => Len(written[w]) = 1

(* the three matching rules, on a pattern p and a hostname H *)
LexLeq(a, b) ==
    \/ a = b
    \/ \E i \in 1..Len(a) : a[i] < b[i] /\ \A j \in 1..(i - 1) : a[j] = b[j]
EqualsIgnoringCase(p, H) == lower(p) = lower(H)
WildcardAccepts(p, H) ==
    /\ Len(p) >= 2 /\ p[1] = "*" /\ p[2] = "."
    /\ LET base == lower(SubSeq(p, 3, Len(p)))
           h == lower(H)
       IN \/ h = base
          \/ \E k \in 1..Len(h) : h[k] = "." /\ SubSeq(h, k + 1, Len(h)) = base
(* H is a literal address between the first and the last address of block p *)
CidrAccepts(p, H) ==
    LET net == ip_network(lower(p))
        addr == ip_address(H)
        width == Len(net.bits)
        first == SubSeq(net.bits, 1, net.prefixlen) \o Zeros(width - net.prefixlen)
        last == SubSeq(net.bits, 1, net.prefixlen) \o Ones(width - net.prefixlen)
    IN /\ Contains(p, "/")
       /\ net.version # 0
       /\ addr.version = net.version
       /\ LexLeq(first, addr.bits) /\ LexLeq(addr.bits, last)
PatternAccepts(p, H) ==
    EqualsIgnoringCase(p, H) \/ WildcardAccepts(p, H) \/ CidrAccepts(p, H)

\* C20: with a non-empty pattern list, the target check accepts the hostname
\* of the requested URL iff some pattern equals it ignoring case, or is
\* '*.base' with the hostname equal to base or ending with '.' + base, or is
\* a CIDR block that contains the hostname as a literal address.
C20_PatternMatching ==
    \A w \in Workers :
        (TargetChecked(w) /\ ALLOWED_TARGET_PATTERNS # <<>>) =>
            LET H == UrlHostname(_extract_target_url(request[w].path)) IN
            (written[w] # <<TargetDenied>>)
                <=> /\ H # None
                    /\ \E i \in 1..Len(ALLOWED_TARGET_PATTERNS) :
                          PatternAccepts(ALLOWED_TARGET_PATTERNS[i], H)
C20_Witness ==
    \E w \in Workers :
        /\ TargetChecked(w)
        /\ UrlHostname(_extract_target_url(request[w].path)) = <<"e","v","i","l","o","k",".","i","o">>
        /\ ALLOWED_TARGET_PATTERNS = << <<"*",".","o","k",".","i","o">>, <<"1","0",".","0",".","0",".","0","/","8">> >>
        /\ written[w] = <<TargetDenied>>
        /\ outbound[w].count = 0
=============================================================================
